---- MODULE Spec2Model ----
(***************************************************************************)
(* Flight delay analysis: scripts/data_processing.py (normalisation and    *)
(* aggregation of a flight table) and scripts/visualizations.py (one chart *)
(* per aggregate).  A table is a pandas DataFrame: an ordered list of      *)
(* labelled columns over n rows.  Column labels need not be unique:        *)
(* DataFrame.rename produces duplicate labels, and selecting a duplicated  *)
(* label yields a sub-frame instead of a column.                           *)
(***************************************************************************)
EXTENDS Integers, Sequences, FiniteSets, TLC

VARIABLES df, prev, ncleaned, call, ret

vars == <<df, prev, ncleaned, call, ret>>

(***************************************************************************)
(* Bounds of the model.                                                    *)
(***************************************************************************)
MaxRows == 3
MaxCols == 2
RowKinds == 3

(***************************************************************************)
(* Program constants.                                                      *)
(***************************************************************************)
DelayThreshold == 15
TopAirports == 50

(***************************************************************************)
(* Cells.  NA is pandas' missing value (NaN / None), NaT the missing       *)
(* timestamp.  A rational p/q (q > 0, lowest terms) stands for a float.    *)
(***************************************************************************)
NA == [na |-> TRUE]
NaT == [nat |-> TRUE]
Num(v) == [num |-> v]
Str(s) == [str |-> s]
Ts(y, m, d) == [ts |-> <<y, m, d>>]

IsNum(c) == DOMAIN c = {"num"}
IsStr(c) == DOMAIN c = {"str"}
IsTs(c) == DOMAIN c = {"ts"}
IsNull(c) == c = NA \/ c = NaT

Abs(a) == IF a < 0 THEN -a ELSE a

RECURSIVE Gcd(_, _)
Gcd(a, b) == IF b = 0 THEN a ELSE Gcd(b, a % b)

Rat(a, b) ==
  LET g == Gcd(Abs(a), b)
  IN  [p |-> a \div g, q |-> b \div g]

(***************************************************************************)
(* Sequence helpers.                                                       *)
(***************************************************************************)
RECURSIVE SumSeq(_)
SumSeq(s) == IF s = <<>> THEN 0 ELSE Head(s) + SumSeq(Tail(s))

RECURSIVE SelectIdx(_, _)
SelectIdx(keep, n) ==
  IF n = 0 THEN <<>>
  ELSE IF keep[n] THEN Append(SelectIdx(keep, n - 1), n)
       ELSE SelectIdx(keep, n - 1)

Map(s, F(_)) == [i \in 1..Len(s) |-> F(s[i])]

(***************************************************************************)
(* Tables.                                                                 *)
(***************************************************************************)
Table(n, cols) == [n |-> n, cols |-> cols]

Labels(t) == [i \in 1..Len(t.cols) |-> t.cols[i].name]

ColIdx(t, name) == {i \in 1..Len(t.cols) : t.cols[i].name = name}

HasCol(t, name) == ColIdx(t, name) # {}

IsDup(t, name) == Cardinality(ColIdx(t, name)) > 1

TheCol(t, name) == t.cols[CHOOSE i \in ColIdx(t, name) : TRUE].vals

\* df[name] = vals: replaces the column in place, or appends a new one.
SetCol(t, name, vals) ==
  IF HasCol(t, name)
  THEN Table(t.n, [i \in 1..Len(t.cols) |->
                     IF t.cols[i].name = name
                     THEN [name |-> name, vals |-> vals]
                     ELSE t.cols[i]])
  ELSE Table(t.n, Append(t.cols, [name |-> name, vals |-> vals]))

Ok(v) == [status |-> "ok", value |-> v]
Raised(e) == [status |-> "raised", exc |-> e]
None == [none |-> TRUE]

(***************************************************************************)
(* clean_flight_data                                                       *)
(***************************************************************************)
column_mapping == <<
  <<"FlightDate", "FL_DATE">>, <<"FL_DATE", "FL_DATE">>,
  <<"Airline", "OP_CARRIER">>, <<"Reporting_Airline", "OP_CARRIER">>,
  <<"CARRIER", "OP_CARRIER">>, <<"OP_UNIQUE_CARRIER", "OP_CARRIER">>,
  <<"Origin", "ORIGIN">>, <<"ORIGIN", "ORIGIN">>,
  <<"Dest", "DEST">>, <<"DEST", "DEST">>,
  <<"DepDelay", "DEP_DELAY">>, <<"DEP_DELAY", "DEP_DELAY">>,
  <<"ArrDelay", "ARR_DELAY">>, <<"ARR_DELAY", "ARR_DELAY">>,
  <<"Cancelled", "CANCELLED">>, <<"CANCELLED", "CANCELLED">>,
  <<"Diverted", "DIVERTED">>, <<"DIVERTED", "DIVERTED">>,
  <<"CarrierDelay", "CARRIER_DELAY">>, <<"CARRIER_DELAY", "CARRIER_DELAY">>,
  <<"WeatherDelay", "WEATHER_DELAY">>, <<"WEATHER_DELAY", "WEATHER_DELAY">>,
  <<"NASDelay", "NAS_DELAY">>, <<"NAS_DELAY", "NAS_DELAY">>,
  <<"SecurityDelay", "SECURITY_DELAY">>, <<"SECURITY_DELAY", "SECURITY_DELAY">>,
  <<"LateAircraftDelay", "LATE_AIRCRAFT_DELAY">>,
  <<"LATE_AIRCRAFT_DELAY", "LATE_AIRCRAFT_DELAY">> >>

\* The loop over column_mapping.items(), from entry k on, as it acts on one
\* column label: df.rename(columns={old: new}) relabels every column
\* labelled old and leaves the others, also one already labelled new, so a
\* label may come to repeat.
RECURSIVE Rename(_, _)
Rename(name, k) ==
  IF k > Len(column_mapping) THEN name
  ELSE Rename(IF name = column_mapping[k][1] THEN column_mapping[k][2] ELSE name,
              k + 1)

RenameAll(t) ==
  Table(t.n, [i \in 1..Len(t.cols) |->
                [name |-> Rename(t.cols[i].name, 1), vals |-> t.cols[i].vals]])

\* 'date' in col.lower(), over the labels a table of the model can carry.
ContainsDate(name) == name \in {"FlightDate", "FL_DATE", "LAST_UPDATED", "report_date"}

FirstDateLike(t) ==
  LET hits == {i \in 1..Len(t.cols) : ContainsDate(t.cols[i].name)}
  IN  IF hits = {} THEN None
      ELSE Str(t.cols[CHOOSE i \in hits : \A j \in hits : i <= j].name)

date_col(t) == IF HasCol(t, "FL_DATE") THEN Str("FL_DATE") ELSE FirstDateLike(t)

\* pd.to_datetime(errors='coerce') on one cell: ISO text is parsed, other
\* text and missing values become NaT, a timestamp stays what it is, an
\* integer is a count of nanoseconds since the epoch.
ParseDate(s) ==
  CASE s = "2020-01-06" -> Ts(2020, 1, 6)
    [] s = "2021-02-07" -> Ts(2021, 2, 7)
    [] OTHER -> NaT

\* A conversion that does not recognise an already converted timestamp.
to_datetime_Reparse(c) ==
  CASE IsStr(c) -> ParseDate(c.str)
    [] OTHER -> NaT

to_datetime(c) ==
  CASE IsStr(c) -> ParseDate(c.str)
    [] IsTs(c) -> c
    [] IsNum(c) -> Ts(1970, 1, 1)
    [] OTHER -> NaT

month(c) == IF IsTs(c) THEN Num(c.ts[2]) ELSE NA

year(c) == IF IsTs(c) THEN Num(c.ts[1]) ELSE NA

\* Monday = 0 .. Sunday = 6 (Zeller's congruence).
dayofweek(c) ==
  IF ~IsTs(c) THEN NA
  ELSE LET y0 == c.ts[1]
           m0 == c.ts[2]
           d == c.ts[3]
           m == IF m0 < 3 THEN m0 + 12 ELSE m0
           y == IF m0 < 3 THEN y0 - 1 ELSE y0
           k == y % 100
           j == y \div 100
           h == (d + ((13 * (m + 1)) \div 5) + k + (k \div 4) + (j \div 4) + 5 * j) % 7
       IN  Num((h + 5) % 7)

\* The date block: a duplicated date label selects a sub-frame, which
\* pd.to_datetime cannot assemble (no year/month/day columns): ValueError.
ConvertDate(t) ==
  LET dc == date_col(t)
  IN  IF dc = None THEN Ok(t)
      ELSE IF IsDup(t, dc.str) THEN Raised("ValueError")
      ELSE LET dates == Map(TheCol(t, dc.str), to_datetime)
               t1 == SetCol(t, dc.str, dates)
               t2 == SetCol(t1, "MONTH", Map(dates, month))
               t3 == SetCol(t2, "DAY_OF_WEEK", Map(dates, dayofweek))
           IN  Ok(SetCol(t3, "YEAR", Map(dates, year)))

delay_cols == <<"DEP_DELAY", "ARR_DELAY", "CARRIER_DELAY", "WEATHER_DELAY",
                "NAS_DELAY", "SECURITY_DELAY", "LATE_AIRCRAFT_DELAY">>

\* A fill that leaves a missing value missing.
fillna_Skip(c) == c

fillna(c) == IF IsNull(c) THEN Num(0) ELSE c

\* for col in delay_cols: df[col] = df[col].fillna(0), when col is a label
\* of the table: every column carrying one of these labels is filled.
FillDelays(t) ==
  Table(t.n, [i \in 1..Len(t.cols) |->
                IF \E k \in 1..Len(delay_cols) : delay_cols[k] = t.cols[i].name
                THEN [name |-> t.cols[i].name, vals |-> Map(t.cols[i].vals, fillna)]
                ELSE t.cols[i]])

\* A flag that counts a delay of exactly the threshold as delayed.
IsDelayedFlag_AtLeast(c) ==
  IF IsNum(c) /\ c.num >= DelayThreshold THEN Num(1) ELSE Num(0)

\* (df['ARR_DELAY'] > 15).astype(int); a comparison with NaN is False.
IsDelayedFlag(c) == IF IsNum(c) /\ c.num > DelayThreshold THEN Num(1) ELSE Num(0)

\* With a duplicated ARR_DELAY label the right-hand side is a two-column
\* frame, which cannot be assigned to the single column IS_DELAYED.
DeriveFlag(t) ==
  IF ~HasCol(t, "ARR_DELAY") THEN Ok(t)
  ELSE IF IsDup(t, "ARR_DELAY") THEN Raised("ValueError")
  ELSE Ok(SetCol(t, "IS_DELAYED", Map(TheCol(t, "ARR_DELAY"), IsDelayedFlag)))

clean_flight_data(t) ==
  LET renamed == RenameAll(t)
      dated == ConvertDate(renamed)
  IN  IF dated.status = "raised" THEN dated
      ELSE DeriveFlag(FillDelays(dated.value))

(***************************************************************************)
(* Column statistics (pandas skips missing values).                        *)
(***************************************************************************)
NonNull(vals) ==
  LET keep == [i \in 1..Len(vals) |-> IsNum(vals[i])]
      idx == SelectIdx(keep, Len(vals))
  IN  [i \in 1..Len(idx) |-> vals[idx[i]].num]

\* A count that takes missing values along (size instead of count).
Count_Size(vals) == Len(vals)

Count(vals) == Len(NonNull(vals))

Sum(vals) == SumSeq(NonNull(vals))

Mean(vals) ==
  IF Count(vals) = 0 THEN NA ELSE Rat(Sum(vals), Count(vals))

Max(vals) ==
  LET xs == NonNull(vals)
  IN  IF xs = <<>> THEN NA
      ELSE Num(CHOOSE m \in {xs[i] : i \in 1..Len(xs)} :
                 \A i \in 1..Len(xs) : xs[i] <= m)

RECURSIVE ISqrtIn(_, _, _)
ISqrtIn(n, lo, hi) ==
  IF lo = hi THEN lo
  ELSE LET mid == (lo + hi + 1) \div 2
       IN  IF mid * mid <= n THEN ISqrtIn(n, mid, hi) ELSE ISqrtIn(n, lo, mid - 1)

ISqrt(n) == ISqrtIn(n, 0, 46340)

\* .round(2): the nearest hundredth, a tie going to the even one.
Round2(x) ==
  IF x = NA THEN NA
  ELSE LET n == 100 * x.p
           f == n \div x.q
           r == n % x.q
           h == IF 2 * r < x.q THEN f
                ELSE IF 2 * r > x.q THEN f + 1
                ELSE IF f % 2 = 0 THEN f ELSE f + 1
       IN  Rat(h, 100)

\* Sample standard deviation (ddof = 1) rounded to the hundredth: with
\* variance a/b the result is the integer nearest to sqrt(10000 a/b), over 100.
StdRound2(vals) ==
  LET xs == NonNull(vals)
      n == Len(xs)
      a == n * SumSeq([i \in 1..n |-> xs[i] * xs[i]]) - SumSeq(xs) * SumSeq(xs)
      b == n * (n - 1)
  IN  IF n < 2 THEN NA
      ELSE Rat((ISqrt((40000 * a) \div b) + 1) \div 2, 100)

Times100(x) == IF x = NA THEN NA ELSE Rat(100 * x.p, x.q)

(***************************************************************************)
(* groupby: one group per distinct non-missing key, in ascending key       *)
(* order (numbers by value, text lexicographically).                       *)
(***************************************************************************)
TextOrder == <<"AA", "ATL", "DL", "JFK", "LAX", "N101", "N202", "UA">>

KeyOrd(c) ==
  IF IsNum(c) THEN c.num
  ELSE CHOOSE i \in 1..Len(TextOrder) : TextOrder[i] = c.str

RECURSIVE SortKeys(_)
SortKeys(S) ==
  IF S = {} THEN <<>>
  ELSE LET m == CHOOSE x \in S : \A y \in S : KeyOrd(x) <= KeyOrd(y)
       IN  <<m>> \o SortKeys(S \ {m})

GroupKeys(t, key) ==
  LET vals == TheCol(t, key)
  IN  SortKeys({vals[i] : i \in {j \in 1..Len(vals) : ~IsNull(vals[j])}})

\* The values of column name in the rows whose key column holds k.
GroupVals(t, key, k, name) ==
  LET kv == TheCol(t, key)
      vals == TheCol(t, name)
      idx == SelectIdx([i \in 1..Len(kv) |-> kv[i] = k], Len(kv))
  IN  [i \in 1..Len(idx) |-> vals[idx[i]]]

\* A result left in the order of groupby, without the final sort.
sort_values_Unsorted(rows) == {rows}

\* sort_values('total_flights', ascending=False) uses the default
\* kind='quicksort', which is not stable: rows come out in descending
\* count, rows of equal count in an order the sort does not fix.
sort_values(rows) ==
  LET n == Len(rows)
      perms == {p \in [1..n -> 1..n] : \A i, j \in 1..n : i # j => p[i] # p[j]}
  IN  {[i \in 1..n |-> rows[p[i]]] : p \in
         {q \in perms : \A i \in 1..(n - 1) :
            rows[q[i]].total_flights >= rows[q[i + 1]].total_flights}}

Frame(index, rows) == [index |-> index, rows |-> rows]

(***************************************************************************)
(* Aggregation functions.  Each yields the set of its possible outcomes:   *)
(* Ok(result), Ok(None) or Raised(exception).                              *)
(***************************************************************************)
get_delay_stats(t) ==
  LET hasArr == HasCol(t, "ARR_DELAY")
      hasCan == HasCol(t, "CANCELLED")
      arr == TheCol(t, "ARR_DELAY")
      total == t.n
      delayed == Len(SelectIdx([i \in 1..Len(arr) |->
                                  IsNum(arr[i]) /\ arr[i].num > DelayThreshold],
                               Len(arr)))
      part1 == IF hasArr
               THEN ("total_flights" :> Num(total)) @@
                    ("delayed_flights" :> Num(delayed)) @@
                    ("delay_rate" :> Rat(100 * delayed, total)) @@
                    ("avg_delay" :> Mean(arr)) @@
                    ("max_delay" :> Max(arr))
               ELSE <<>>
      cancelled == Sum(TheCol(t, "CANCELLED"))
      part2 == IF hasCan
               THEN ("cancelled_flights" :> Num(cancelled)) @@
                    ("cancellation_rate" :> Rat(100 * cancelled, total))
               ELSE <<>>
  IN  IF hasArr /\ total = 0 THEN Raised("ZeroDivisionError")
      ELSE IF hasCan /\ ~hasArr THEN Raised("KeyError")
      ELSE Ok(part1 @@ part2)

CarrierRow(t, k) ==
  [key |-> k,
   total_flights |-> Count(GroupVals(t, "OP_CARRIER", k, "ARR_DELAY")),
   avg_delay |-> Round2(Mean(GroupVals(t, "OP_CARRIER", k, "ARR_DELAY"))),
   std_delay |-> StdRound2(GroupVals(t, "OP_CARRIER", k, "ARR_DELAY")),
   delay_rate |-> Times100(Round2(Mean(GroupVals(t, "OP_CARRIER", k, "IS_DELAYED"))))]

get_carrier_stats(t) ==
  IF ~HasCol(t, "OP_CARRIER") \/ ~HasCol(t, "ARR_DELAY") THEN {Ok(None)}
  ELSE IF IsDup(t, "OP_CARRIER") THEN {Raised("ValueError")}
  ELSE IF ~HasCol(t, "IS_DELAYED") THEN {Raised("KeyError")}
  ELSE LET keys == GroupKeys(t, "OP_CARRIER")
           rows == [i \in 1..Len(keys) |-> CarrierRow(t, keys[i])]
       IN  {Ok(Frame("OP_CARRIER", s)) : s \in sort_values(rows)}

AirportRow(t, airport_col, k) ==
  [key |-> k,
   total_flights |-> Count(GroupVals(t, airport_col, k, "ARR_DELAY")),
   avg_delay |-> Round2(Mean(GroupVals(t, airport_col, k, "ARR_DELAY")))]

get_airport_stats(t, airport_col) ==
  IF ~HasCol(t, airport_col) \/ ~HasCol(t, "ARR_DELAY") THEN {Ok(None)}
  ELSE IF IsDup(t, airport_col) THEN {Raised("ValueError")}
  ELSE LET keys == GroupKeys(t, airport_col)
           rows == [i \in 1..Len(keys) |-> AirportRow(t, airport_col, keys[i])]
       IN  {Ok(Frame(airport_col, s)) : s \in sort_values(rows)}

cause_cols == <<"CARRIER_DELAY", "WEATHER_DELAY", "NAS_DELAY",
                "SECURITY_DELAY", "LATE_AIRCRAFT_DELAY">>

\* col.replace('_DELAY', '')
cause_keys == <<"CARRIER", "WEATHER", "NAS", "SECURITY", "LATE_AIRCRAFT">>

\* A breakdown taken over all records of the column instead of the
\* records with positive minutes.
CauseEntry_AllRecords(t, k) ==
  LET vals == TheCol(t, cause_cols[k])
  IN  [cause |-> cause_keys[k],
       count |-> Count(vals),
       total_minutes |-> Sum(vals),
       avg_minutes |-> Mean(vals)]

\* delayed = df[df[col] > 0], then len, sum and mean of delayed[col].
CauseEntry(t, k) ==
  LET vals == TheCol(t, cause_cols[k])
      idx == SelectIdx([i \in 1..Len(vals) |-> IsNum(vals[i]) /\ vals[i].num > 0],
                       Len(vals))
      delayed == [i \in 1..Len(idx) |-> vals[idx[i]]]
  IN  [cause |-> cause_keys[k],
       count |-> Len(delayed),
       total_minutes |-> Sum(delayed),
       avg_minutes |-> Mean(delayed)]

RECURSIVE CausesUpTo(_, _)
CausesUpTo(t, k) ==
  IF k = 0 THEN <<>>
  ELSE IF HasCol(t, cause_cols[k])
       THEN Append(CausesUpTo(t, k - 1), CauseEntry(t, k))
       ELSE CausesUpTo(t, k - 1)

get_delay_causes(t) == Ok(CausesUpTo(t, Len(cause_cols)))

PeriodRow(t, key, k) ==
  [key |-> k,
   total_flights |-> Count(GroupVals(t, key, k, "ARR_DELAY")),
   avg_delay |-> Round2(Mean(GroupVals(t, key, k, "ARR_DELAY"))),
   delay_rate |-> Times100(Round2(Mean(GroupVals(t, key, k, "IS_DELAYED"))))]

\* get_monthly_stats and get_yearly_stats share one body; neither sorts.
PeriodStats(t, key) ==
  IF ~HasCol(t, key) \/ ~HasCol(t, "ARR_DELAY") THEN Ok(None)
  ELSE IF IsDup(t, key) THEN Raised("ValueError")
  ELSE IF ~HasCol(t, "IS_DELAYED") THEN Raised("KeyError")
  ELSE LET keys == GroupKeys(t, key)
       IN  Ok(Frame(key, [i \in 1..Len(keys) |-> PeriodRow(t, key, keys[i])]))

get_monthly_stats(t) == PeriodStats(t, "MONTH")

get_yearly_stats(t) == PeriodStats(t, "YEAR")

(***************************************************************************)
(* export_for_tableau: the five aggregates in turn.  An aggregate that is  *)
(* None writes nothing; an exception leaves the function at once, with the *)
(* files written so far on disk.                                           *)
(***************************************************************************)
export_files == <<"yearly_summary_tableau.csv", "monthly_summary_tableau.csv",
                  "carrier_summary_tableau.csv", "origin_airports_tableau.csv",
                  "dest_airports_tableau.csv">>

head(frame, n) ==
  Frame(frame.index, SubSeq(frame.rows, 1, IF Len(frame.rows) < n THEN Len(frame.rows) ELSE n))

Top(r) == IF r.status = "ok" /\ r.value # None THEN Ok(head(r.value, TopAirports)) ELSE r

ExportAggregate(t, k) ==
  CASE k = 1 -> {get_yearly_stats(t)}
    [] k = 2 -> {get_monthly_stats(t)}
    [] k = 3 -> get_carrier_stats(t)
    [] k = 4 -> {Top(r) : r \in get_airport_stats(t, "ORIGIN")}
    [] OTHER -> {Top(r) : r \in get_airport_stats(t, "DEST")}

RECURSIVE ExportFrom(_, _, _)
ExportFrom(t, k, files) ==
  IF k > Len(export_files) THEN {[status |-> "ok", files |-> files]}
  ELSE UNION {
         IF r.status = "raised"
         THEN {[status |-> "raised", exc |-> r.exc, files |-> files]}
         ELSE IF r.value = None THEN ExportFrom(t, k + 1, files)
         ELSE ExportFrom(t, k + 1,
                         Append(files, [name |-> export_files[k], data |-> r.value])) :
         r \in ExportAggregate(t, k)}

export_for_tableau(t) == ExportFrom(t, 1, <<>>)

(***************************************************************************)
(* Charts.  A chart function returns without a file (Skipped), saves its   *)
(* file (Saved) or raises on the first column it reads that is not there.  *)
(* The drawing calls on the axes are matplotlib's and are not modelled.    *)
(***************************************************************************)
Skipped == [status |-> "ok", saved |-> <<>>]
Saved(f) == [status |-> "ok", saved |-> <<f>>]

plot_yearly_trend(t) ==
  IF ~HasCol(t, "YEAR") THEN Skipped
  ELSE IF IsDup(t, "YEAR") THEN Raised("ValueError")
  ELSE IF ~HasCol(t, "ARR_DELAY") \/ ~HasCol(t, "IS_DELAYED") THEN Raised("KeyError")
  ELSE Saved("01_yearly_delay_trend.png")

plot_monthly_pattern(t) ==
  IF ~HasCol(t, "MONTH") THEN Skipped
  ELSE IF IsDup(t, "MONTH") THEN Raised("ValueError")
  ELSE IF ~HasCol(t, "ARR_DELAY") THEN Raised("KeyError")
  ELSE Saved("02_monthly_pattern.png")

plot_day_of_week(t) ==
  IF ~HasCol(t, "DAY_OF_WEEK") THEN Skipped
  ELSE IF IsDup(t, "DAY_OF_WEEK") THEN Raised("ValueError")
  ELSE IF ~HasCol(t, "ARR_DELAY") THEN Raised("KeyError")
  ELSE Saved("03_day_of_week_pattern.png")

plot_top_carriers(t) ==
  IF ~HasCol(t, "OP_CARRIER") THEN Skipped
  ELSE IF IsDup(t, "OP_CARRIER") THEN Raised("ValueError")
  ELSE IF ~HasCol(t, "ARR_DELAY") THEN Raised("KeyError")
  ELSE Saved("04_carrier_analysis.png")

plot_top_airports(t) ==
  IF ~HasCol(t, "ORIGIN") THEN Skipped
  ELSE IF IsDup(t, "ORIGIN") THEN Raised("ValueError")
  ELSE IF ~HasCol(t, "ARR_DELAY") THEN Raised("KeyError")
  ELSE IF ~HasCol(t, "DEST") THEN Raised("KeyError")
  ELSE IF IsDup(t, "DEST") THEN Raised("ValueError")
  ELSE Saved("05_airport_delays.png")

plot_delay_causes(t) ==
  IF \A k \in 1..Len(cause_cols) : ~HasCol(t, cause_cols[k]) THEN Skipped
  ELSE Saved("06_delay_causes.png")

plot_delay_distribution(t) ==
  IF ~HasCol(t, "ARR_DELAY") THEN Skipped
  ELSE Saved("07_delay_distribution.png")

plot_cancellation_analysis(t) ==
  IF ~HasCol(t, "CANCELLED") THEN Skipped
  ELSE IF IsDup(t, "OP_CARRIER") \/ IsDup(t, "MONTH") THEN Raised("ValueError")
  ELSE Saved("08_cancellation_analysis.png")

Chart(t, k) ==
  CASE k = 1 -> plot_yearly_trend(t)
    [] k = 2 -> plot_monthly_pattern(t)
    [] k = 3 -> plot_day_of_week(t)
    [] k = 4 -> plot_top_carriers(t)
    [] k = 5 -> plot_top_airports(t)
    [] k = 6 -> plot_delay_causes(t)
    [] k = 7 -> plot_delay_distribution(t)
    [] OTHER -> plot_cancellation_analysis(t)

NumCharts == 8

\* create_all_visualizations: the charts in turn; the first exception ends it.
RECURSIVE ChartsFrom(_, _, _)
ChartsFrom(t, k, saved) ==
  IF k > NumCharts THEN [status |-> "ok", saved |-> saved, done |-> NumCharts]
  ELSE LET r == Chart(t, k)
       IN  IF r.status = "raised"
           THEN [status |-> "raised", exc |-> r.exc, saved |-> saved, done |-> k - 1]
           ELSE ChartsFrom(t, k + 1, saved \o r.saved)

create_all_visualizations(t) == ChartsFrom(t, 1, <<>>)

(***************************************************************************)
(* Input tables: the frame load_flight_data returns.  read_csv gives every *)
(* column its own label.  A table takes up to MaxCols of SourceColumns (in *)
(* this order) and up to MaxRows rows; each row is of one of RowKinds      *)
(* kinds, which fixes the row's cell in each column.                       *)
(***************************************************************************)
SourceColumns == <<"LAST_UPDATED", "FlightDate", "FL_DATE", "Airline", "CARRIER", "ORIGIN",
                   "Dest", "ArrDelay", "ARR_DELAY", "DEP_DELAY", "CANCELLED",
                   "CARRIER_DELAY", "WEATHER_DELAY", "MONTH", "YEAR",
                   "IS_DELAYED", "TAIL_NUM", "report_date">>

CellDomain(name) ==
  CASE name = "LAST_UPDATED" -> <<Str("2021-02-07"), NA, Str("2020-01-06")>>
    [] name = "report_date" -> <<Str("2020-01-06"), Str("2021-02-07"), Str("TBD")>>
    [] name = "FlightDate" -> <<Str("2020-01-06"), Str("TBD"), Str("2021-02-07")>>
    [] name = "FL_DATE" -> <<Str("2021-02-07"), Str("2020-01-06"), NA>>
    [] name = "Airline" -> <<Str("AA"), Str("DL"), NA>>
    [] name = "CARRIER" -> <<Str("UA"), NA, Str("AA")>>
    [] name = "ORIGIN" -> <<Str("JFK"), Str("ATL"), NA>>
    [] name = "Dest" -> <<NA, Str("LAX"), Str("ATL")>>
    [] name = "ArrDelay" -> <<Num(16), NA, Num(15)>>
    [] name = "ARR_DELAY" -> <<NA, Num(20), Num(-5)>>
    [] name = "DEP_DELAY" -> <<Num(30), Num(-2), NA>>
    [] name = "CANCELLED" -> <<Num(0), Num(1), NA>>
    [] name = "CARRIER_DELAY" -> <<Num(5), NA, Num(-3)>>
    [] name = "WEATHER_DELAY" -> <<Num(0), Num(7), Num(5)>>
    [] name = "MONTH" -> <<Num(2), Num(1), NA>>
    [] name = "YEAR" -> <<Num(2021), NA, Num(2020)>>
    [] name = "IS_DELAYED" -> <<Num(1), Num(0), NA>>
    [] OTHER -> <<Str("N101"), NA, Str("N202")>>

CellValue(name, k) ==
  LET d == CellDomain(name) IN d[((k - 1) % Len(d)) + 1]

Schemas ==
  {SelectIdx([i \in 1..Len(SourceColumns) |-> i \in S], Len(SourceColumns)) :
     S \in {X \in SUBSET (1..Len(SourceColumns)) : Cardinality(X) <= MaxCols}}

RowKindSeqs == UNION {[1..n -> 1..RowKinds] : n \in 0..MaxRows}

InputTable(schema, kinds) ==
  Table(Len(kinds),
        [i \in 1..Len(schema) |->
           [name |-> SourceColumns[schema[i]],
            vals |-> [r \in 1..Len(kinds) |->
                        CellValue(SourceColumns[schema[i]], kinds[r])]]])

Init ==
  /\ \E schema \in Schemas, kinds \in RowKindSeqs : df = InputTable(schema, kinds)
  /\ prev = df
  /\ ncleaned = 0
  /\ call = "load_flight_data"
  /\ ret = None

Ready ==
  \/ call = "load_flight_data"
  \/ call = "clean_flight_data" /\ ret.status = "ok"

Clean ==
  /\ Ready
  /\ ncleaned < 2
  /\ LET r == clean_flight_data(df)
     IN  /\ call' = "clean_flight_data"
         /\ prev' = df
         /\ IF r.status = "ok"
            THEN /\ df' = r.value
                 /\ ncleaned' = ncleaned + 1
                 /\ ret' = [status |-> "ok"]
            ELSE /\ ret' = r
                 /\ UNCHANGED <<df, ncleaned>>

Returns(name, r) ==
  /\ Ready
  /\ call' = name
  /\ ret' = r
  /\ UNCHANGED <<df, prev, ncleaned>>

GetDelayStats == Returns("get_delay_stats", get_delay_stats(df))

GetCarrierStats == \E r \in get_carrier_stats(df) : Returns("get_carrier_stats", r)

GetAirportStats ==
  \E col \in {"ORIGIN", "DEST"} : \E r \in get_airport_stats(df, col) :
    Returns("get_airport_stats", r @@ [airport_col |-> col])

GetDelayCauses == Returns("get_delay_causes", get_delay_causes(df))

GetMonthlyStats == Returns("get_monthly_stats", get_monthly_stats(df))

GetYearlyStats == Returns("get_yearly_stats", get_yearly_stats(df))

ExportForTableau == \E r \in export_for_tableau(df) : Returns("export_for_tableau", r)

PlotYearlyTrend == Returns("plot_yearly_trend", plot_yearly_trend(df))

PlotMonthlyPattern == Returns("plot_monthly_pattern", plot_monthly_pattern(df))

PlotDayOfWeek == Returns("plot_day_of_week", plot_day_of_week(df))

PlotTopCarriers == Returns("plot_top_carriers", plot_top_carriers(df))

PlotTopAirports == Returns("plot_top_airports", plot_top_airports(df))

PlotDelayCauses == Returns("plot_delay_causes", plot_delay_causes(df))

PlotDelayDistribution == Returns("plot_delay_distribution", plot_delay_distribution(df))

PlotCancellationAnalysis ==
  Returns("plot_cancellation_analysis", plot_cancellation_analysis(df))

CreateAllVisualizations ==
  Returns("create_all_visualizations", create_all_visualizations(df))

Next ==
  \/ Clean
  \/ GetDelayStats
  \/ GetCarrierStats
  \/ GetAirportStats
  \/ GetDelayCauses
  \/ GetMonthlyStats
  \/ GetYearlyStats
  \/ ExportForTableau
  \/ PlotYearlyTrend
  \/ PlotMonthlyPattern
  \/ PlotDayOfWeek
  \/ PlotTopCarriers
  \/ PlotTopAirports
  \/ PlotDelayCauses
  \/ PlotDelayDistribution
  \/ PlotCancellationAnalysis
  \/ CreateAllVisualizations

Spec == Init /\ [][Next]_vars

(***************************************************************************)
(* Properties.                                                             *)
(***************************************************************************)
OneOf(names) == \E k \in 1..Len(names) : call = names[k]

ReturnedFrame == ret.status = "ok" /\ ret.value # None

AggregationCalls == <<"get_delay_stats", "get_carrier_stats", "get_airport_stats",
                      "get_monthly_stats", "get_yearly_stats", "get_delay_causes">>

GroupedCalls == <<"get_carrier_stats", "get_airport_stats",
                  "get_monthly_stats", "get_yearly_stats">>

ChartCalls == <<"plot_yearly_trend", "plot_monthly_pattern", "plot_day_of_week",
                "plot_top_carriers", "plot_top_airports", "plot_delay_causes",
                "plot_delay_distribution", "plot_cancellation_analysis",
                "create_all_visualizations">>

Cleaned == call = "clean_flight_data" /\ ret.status = "ok"

\* The columns of the table handed to clean_flight_data that the synonym
\* map sends to the canonical label name.
SourcesOf(name) == {i \in 1..Len(prev.cols) : Rename(prev.cols[i].name, 1) = name}

\* C1: get_delay_stats on a table with zero records returns a stats
\* structure and does not fail (no division by zero), whatever columns the
\* table has.
C1_EmptyTableStats ==
  (call = "get_delay_stats" /\ df.n = 0) => ret.status = "ok"

\* C2: no aggregation function raises because a column it needs is missing:
\* it returns its result, or an absent/empty one.
C2_MissingColumnIsNotAnError ==
  OneOf(AggregationCalls) => ~(ret.status = "raised" /\ ret.exc = "KeyError")

\* C3: clean_flight_data completes on every table that uses the known source
\* spellings, also several spellings of one field at once; its result has at
\* most one column per canonical name, an untransformed canonical column
\* holds the values of the last source spelling the map applies, and a column
\* the function neither maps nor derives keeps its name and values.
C3_Untouched == {"OP_CARRIER", "ORIGIN", "DEST", "CANCELLED", "DIVERTED"}

C3_Derived == {"MONTH", "DAY_OF_WEEK", "YEAR", "IS_DELAYED"}

C3_OneColumnPerCanonicalName ==
  call = "clean_flight_data" =>
    /\ ret.status = "ok"
    /\ \A k \in 1..Len(column_mapping) : ~IsDup(df, column_mapping[k][2])
    /\ \A name \in C3_Untouched :
         SourcesOf(name) # {} =>
           TheCol(df, name) =
             prev.cols[CHOOSE i \in SourcesOf(name) :
                         \A j \in SourcesOf(name) :
                           \A a, b \in 1..Len(column_mapping) :
                             (column_mapping[a][1] = prev.cols[i].name /\
                              column_mapping[b][1] = prev.cols[j].name) => b <= a].vals
    /\ \A i \in 1..Len(prev.cols) :
         (Rename(prev.cols[i].name, 1) = prev.cols[i].name
            /\ \A k \in 1..Len(column_mapping) :
                 column_mapping[k][2] # prev.cols[i].name
            /\ prev.cols[i].name \notin C3_Derived)
         => /\ HasCol(df, prev.cols[i].name)
            /\ TheCol(df, prev.cols[i].name) = prev.cols[i].vals

\* C4 as first stated: after clean_flight_data, a record whose arrival delay
\* is present has IS_DELAYED = 1 iff the delay is > 15 and 0 otherwise; a
\* record whose arrival delay is absent in the input has no delay flag, and
\* a table without an arrival-delay column gets no delay flag (it has an
\* IS_DELAYED column only if the input brought one).
C4_FlagAbsentWhereDelayAbsent ==
  Cleaned =>
    IF SourcesOf("ARR_DELAY") = {}
    THEN HasCol(df, "IS_DELAYED") <=> HasCol(prev, "IS_DELAYED")
    ELSE \A c \in SourcesOf("ARR_DELAY") : \A r \in 1..df.n :
           LET v == prev.cols[c].vals[r]
               flag == TheCol(df, "IS_DELAYED")[r]
           IN  IF IsNum(v)
               THEN flag = Num(IF v.num > 15 THEN 1 ELSE 0)
               ELSE IsNull(flag)

\* C4, amended: after clean_flight_data, in a table with an arrival-delay
\* column every record has IS_DELAYED = 1 if its arrival delay is present
\* and > 15 (15 itself gives 0) and IS_DELAYED = 0 otherwise, a record whose
\* arrival delay is absent in the input included (the delay is filled with 0
\* first); for a table without an arrival-delay column no flag is derived:
\* the result has an IS_DELAYED column only if the input had one, unchanged.
C4_DelayFlag ==
  Cleaned =>
    IF SourcesOf("ARR_DELAY") = {}
    THEN /\ HasCol(df, "IS_DELAYED") <=> HasCol(prev, "IS_DELAYED")
         /\ HasCol(df, "IS_DELAYED") =>
              TheCol(df, "IS_DELAYED") = TheCol(prev, "IS_DELAYED")
    ELSE /\ ~IsDup(df, "IS_DELAYED")
         /\ \A c \in SourcesOf("ARR_DELAY") : \A r \in 1..df.n :
              LET v == prev.cols[c].vals[r]
              IN  TheCol(df, "IS_DELAYED")[r] =
                    Num(IF IsNum(v) /\ v.num > 15 THEN 1 ELSE 0)

\* Witness of C4: a cleaned table whose input held an absent arrival delay,
\* one of exactly 15 and one above 15.
C4_Witness ==
  /\ Cleaned
  /\ ncleaned = 1
  /\ \E c \in SourcesOf("ARR_DELAY") :
       /\ \E r \in 1..df.n : prev.cols[c].vals[r] = NA
       /\ \E r \in 1..df.n : prev.cols[c].vals[r] = Num(15)
       /\ \E r \in 1..df.n : prev.cols[c].vals[r] = Num(16)

\* C5: clean_flight_data is idempotent: cleaning a cleaned table succeeds and
\* returns the same columns, in the same order, with the same values.
C5_CleanIdempotent ==
  /\ (call = "clean_flight_data" /\ ncleaned >= 1) => ret.status = "ok"
  /\ ncleaned = 2 => df = prev

\* Witness of C5: a table cleaned twice that has a converted date column
\* with an unparseable date, derived calendar columns, a filled arrival
\* delay and a delay flag.
C5_Witness ==
  /\ ncleaned = 2
  /\ HasCol(df, "FL_DATE") /\ HasCol(df, "MONTH") /\ HasCol(df, "IS_DELAYED")
  /\ \E r \in 1..df.n : TheCol(df, "FL_DATE")[r] = NaT
  /\ \E r \in 1..df.n : IsTs(TheCol(df, "FL_DATE")[r])

\* C6 as first stated: the rows of every grouped statistics result (carrier,
\* airport, month, year) are in descending order of count, rows of equal
\* count in ascending order of the group key.
C6_DescendingCountThenKey ==
  (OneOf(GroupedCalls) /\ ReturnedFrame) =>
    \A i \in 1..(Len(ret.value.rows) - 1) :
      LET a == ret.value.rows[i]
          b == ret.value.rows[i + 1]
      IN  \/ a.total_flights > b.total_flights
          \/ a.total_flights = b.total_flights /\ KeyOrd(a.key) < KeyOrd(b.key)

\* C6, amended: the rows of get_carrier_stats and get_airport_stats are in
\* descending order of count (the order of rows of equal count is not fixed);
\* the rows of get_monthly_stats and get_yearly_stats are in ascending order
\* of the month or year, whatever their counts.
C6_RowOrder ==
  (OneOf(GroupedCalls) /\ ReturnedFrame) =>
    \A i \in 1..(Len(ret.value.rows) - 1) :
      LET a == ret.value.rows[i]
          b == ret.value.rows[i + 1]
      IN  IF call \in {"get_carrier_stats", "get_airport_stats"}
          THEN a.total_flights >= b.total_flights
          ELSE KeyOrd(a.key) < KeyOrd(b.key)

\* Witness of C6: a carrier result whose counts differ, first row the
\* carrier that sorts later.
C6_Witness ==
  /\ call = "get_carrier_stats"
  /\ ReturnedFrame
  /\ Len(ret.value.rows) = 2
  /\ ret.value.rows[1].total_flights > ret.value.rows[2].total_flights
  /\ KeyOrd(ret.value.rows[1].key) > KeyOrd(ret.value.rows[2].key)

\* C7: the total_flights counts of a grouped statistics result add up to the
\* number of records that have both a group key and an arrival delay.
C7_CountsSum ==
  (OneOf(GroupedCalls) /\ ReturnedFrame) =>
    SumSeq([i \in 1..Len(ret.value.rows) |-> ret.value.rows[i].total_flights]) =
      Cardinality({r \in 1..df.n :
                     /\ ~IsNull(TheCol(df, ret.value.index)[r])
                     /\ ~IsNull(TheCol(df, "ARR_DELAY")[r])})

\* Witness of C7: a result over a table with one record without a group key,
\* one without an arrival delay and one with both.
C7_Witness ==
  /\ OneOf(GroupedCalls)
  /\ ReturnedFrame
  /\ \E r \in 1..df.n : /\ IsNull(TheCol(df, ret.value.index)[r])
                        /\ ~IsNull(TheCol(df, "ARR_DELAY")[r])
  /\ \E r \in 1..df.n : /\ ~IsNull(TheCol(df, ret.value.index)[r])
                        /\ IsNull(TheCol(df, "ARR_DELAY")[r])
  /\ \E i \in 1..Len(ret.value.rows) : ret.value.rows[i].total_flights > 0

\* The records of the table whose minutes in the cause column are > 0.
C8_Positive(col) ==
  {r \in 1..df.n : IsNum(TheCol(df, col)[r]) /\ TheCol(df, col)[r].num > 0}

RECURSIVE C8_Minutes(_, _)
C8_Minutes(col, R) ==
  IF R = {} THEN 0
  ELSE LET r == CHOOSE x \in R : TRUE
       IN  TheCol(df, col)[r].num + C8_Minutes(col, R \ {r})

\* C8: for each delay-cause column of the table get_delay_causes has one
\* entry, with count = the number of records whose minutes are > 0,
\* total_minutes = the sum over those records and avg_minutes = total_minutes
\* / count (no value when count is 0); a cause without a column has no entry.
C8_CauseBreakdown ==
  call = "get_delay_causes" =>
    /\ ret.status = "ok"
    /\ \A k \in 1..Len(cause_cols) :
         LET entries == {i \in 1..Len(ret.value) : ret.value[i].cause = cause_keys[k]}
         IN  IF ~HasCol(df, cause_cols[k]) THEN entries = {}
             ELSE /\ Cardinality(entries) = 1
                  /\ \A i \in entries :
                       LET pos == C8_Positive(cause_cols[k])
                           e == ret.value[i]
                       IN  /\ e.count = Cardinality(pos)
                           /\ e.total_minutes = C8_Minutes(cause_cols[k], pos)
                           /\ e.avg_minutes =
                                IF pos = {} THEN NA
                                ELSE Rat(C8_Minutes(cause_cols[k], pos), Cardinality(pos))

\* Witness of C8: a breakdown with a cause that some records have and some do
\* not, and whose minutes differ between records.
C8_Witness ==
  /\ call = "get_delay_causes"
  /\ \E i \in 1..Len(ret.value) :
       /\ ret.value[i].count = 2
       /\ df.n = 3
       /\ ret.value[i].total_minutes = 12

\* C9: export_for_tableau attempts all five exports: it never aborts because
\* an aggregate was not computable, and every aggregate whose group key and
\* arrival delay are in the table has its file written.
C9_Needs == <<"YEAR", "MONTH", "OP_CARRIER", "ORIGIN", "DEST">>

C9_ExportsIndependent ==
  call = "export_for_tableau" =>
    /\ ret.status = "ok"
    /\ \A k \in 1..Len(export_files) :
         (HasCol(df, C9_Needs[k]) /\ HasCol(df, "ARR_DELAY")) =>
           \E i \in 1..Len(ret.files) : ret.files[i].name = export_files[k]

\* C10: a chart function returns without error when a column it reads is
\* absent, so create_all_visualizations reaches its last chart.
C10_ChartsSkipMissingColumns ==
  OneOf(ChartCalls) =>
    /\ ~(ret.status = "raised" /\ ret.exc = "KeyError")
    /\ call = "create_all_visualizations" => ret.done = NumCharts

\* The columns of the cleaned table that carry a delay-minute label.
C11_DelayColumns ==
  {i \in 1..Len(df.cols) : \E k \in 1..Len(delay_cols) : df.cols[i].name = delay_cols[k]}

\* C11: after clean_flight_data no delay-minute column of the result has a
\* missing value: each holds 0 where its own input column had a missing
\* value and the input value everywhere else, so a fill draws on no other
\* column; and a column that is neither a delay-minute column, nor the date
\* column that was converted, nor a derived one is left as it was.
C11_DelaysZeroFilled ==
  Cleaned =>
    /\ Len(df.cols) >= Len(prev.cols)
    /\ \A i \in C11_DelayColumns :
         /\ i <= Len(prev.cols)
         /\ Rename(prev.cols[i].name, 1) = df.cols[i].name
         /\ \A r \in 1..df.n :
              /\ ~IsNull(df.cols[i].vals[r])
              /\ df.cols[i].vals[r] =
                   IF IsNull(prev.cols[i].vals[r]) THEN Num(0) ELSE prev.cols[i].vals[r]
    /\ \A i \in (1..Len(prev.cols)) \ C11_DelayColumns :
         (df.cols[i].name \notin C3_Derived /\ Str(df.cols[i].name) # date_col(df))
           => df.cols[i].vals = prev.cols[i].vals

\* Witness of C11: a cleaned table with two delay-minute columns, one row
\* missing only the first and another row missing only the second.
C11_Witness ==
  /\ Cleaned
  /\ \E i, j \in C11_DelayColumns :
       /\ i < j /\ j <= Len(prev.cols)
       /\ \E r \in 1..df.n : /\ IsNull(prev.cols[i].vals[r])
                             /\ IsNum(prev.cols[j].vals[r]) /\ prev.cols[j].vals[r].num # 0
       /\ \E r \in 1..df.n : /\ IsNull(prev.cols[j].vals[r])
                             /\ IsNum(prev.cols[i].vals[r]) /\ prev.cols[i].vals[r].num # 0

C12_Calendar == <<"MONTH", "DAY_OF_WEEK", "YEAR">>

\* The columns of the input table whose name contains 'date' (FL_DATE and
\* FlightDate among them).
C12_DateLike == {i \in 1..Len(prev.cols) : ContainsDate(prev.cols[i].name)}

\* The column the claim names as the date column: the canonical FL_DATE
\* when the table has it, else the first column whose name contains 'date'.
C12_Chosen ==
  IF SourcesOf("FL_DATE") # {} THEN CHOOSE i \in SourcesOf("FL_DATE") : TRUE
  ELSE CHOOSE i \in C12_DateLike : \A j \in C12_DateLike : i <= j

\* Without a date column no calendar field is derived: the result has a
\* calendar column only if the input brought it, with the input's values.
C12_NoCalendarWithoutDate ==
  C12_DateLike = {} =>
    \A k \in 1..Len(C12_Calendar) :
      /\ HasCol(df, C12_Calendar[k]) <=> HasCol(prev, C12_Calendar[k])
      /\ HasCol(prev, C12_Calendar[k]) =>
           TheCol(df, C12_Calendar[k]) = TheCol(prev, C12_Calendar[k])

\* With a date column, the chosen column is converted, the calendar fields
\* are those of the chosen column, and every other column whose name
\* contains 'date' is left as it was.
C12_DateColumnChoice ==
  C12_DateLike # {} =>
    LET dates == Map(prev.cols[C12_Chosen].vals, to_datetime)
    IN  /\ df.cols[C12_Chosen].vals = dates
        /\ TheCol(df, "MONTH") = Map(dates, month)
        /\ TheCol(df, "DAY_OF_WEEK") = Map(dates, dayofweek)
        /\ TheCol(df, "YEAR") = Map(dates, year)
        /\ \A i \in C12_DateLike \ {C12_Chosen} : df.cols[i] = prev.cols[i]

\* C12: calendar fields come only from the date column: on a table with no
\* FL_DATE or FlightDate column and no column whose name contains 'date',
\* clean_flight_data completes without raising and derives no month,
\* day-of-week or year; on a table with a date column it uses the canonical
\* FL_DATE in preference to any other column whose name contains 'date',
\* otherwise the first such column in column order.
C12_CalendarFromDateColumn ==
  call = "clean_flight_data" =>
    /\ C12_DateLike = {} => ret.status = "ok"
    /\ ret.status = "ok" => (C12_NoCalendarWithoutDate /\ C12_DateColumnChoice)

====
